---- MODULE Spec2Model ----
(***************************************************************************)
(* A model of py2c_ast.py: the tree-walking translator from a Python       *)
(* syntax tree to C-like text.                                             *)
(*                                                                         *)
(* The recursion of walk / CConverter.walk / process_* is unfolded into an *)
(* explicit control stack (agenda): the head of the agenda is the next     *)
(* step of the innermost active call, and a routine that calls             *)
(* converter.walk on its children pushes, in order, the writes and child   *)
(* walks it still has to perform.  An exception empties the agenda, since  *)
(* nothing in the file catches one.                                        *)
(***************************************************************************)
EXTENDS Integers, Sequences, FiniteSets, TLC

(***************************************************************************)
(* Bounds of the explored inputs.                                          *)
(***************************************************************************)
MaxBranches == 3      \* guarded branches (if + elif) of a conditional chain
MaxLoopDepth == 2     \* nesting depth of while loops
MaxExprDepth == 2     \* nesting depth of expressions

(***************************************************************************)
(* Encodings of Python values.                                             *)
(***************************************************************************)
None == 0             \* the reference None (node ids start at 1)
PyNone == -1          \* the value None of an integer-valued attribute
NoAttr == -2          \* hasattr(node, attr) is False

VNone == [t |-> "None"]
VStr(lines) == [t |-> "str", lines |-> lines]    \* a str, split at '\n'
VInt(n) == [t |-> "int", v |-> n]
VBool(b) == [t |-> "bool", v |-> b]

(***************************************************************************)
(* Source programs, as the nested syntax the parser reads.                 *)
(***************************************************************************)
NoNode == [kind |-> "None"]
OpNode(k) == [kind |-> k]
Name(id) == [kind |-> "Name", id |-> id, ctx |-> OpNode("Load")]
Constant(v) == [kind |-> "Constant", value |-> v]
BinOp(l, op, r) == [kind |-> "BinOp", left |-> l, op |-> OpNode(op), right |-> r]
BoolOp(op, vs) == [kind |-> "BoolOp", op |-> OpNode(op), values |-> vs]
UnaryOp(op, e) == [kind |-> "UnaryOp", op |-> OpNode(op), operand |-> e]
Compare(l, ops, cs) ==
    [kind |-> "Compare", left |-> l,
     ops |-> [i \in DOMAIN ops |-> OpNode(ops[i])], comparators |-> cs]
Call(f, as) == [kind |-> "Call", func |-> f, args |-> as]
IfExp(c, b, o) == [kind |-> "IfExp", test |-> c, body |-> b, orelse |-> o]
Subscript(v, s) == [kind |-> "Subscript", value |-> v, slice |-> s]
Slice(lo, hi) == [kind |-> "Slice", lower |-> lo, upper |-> hi]
SetComp(e) == [kind |-> "SetComp", elt |-> e]
Expr(e) == [kind |-> "Expr", value |-> e]
Assign(ts, v) == [kind |-> "Assign", targets |-> ts, value |-> v]
AnnAssign(t, a, v) == [kind |-> "AnnAssign", target |-> t, annotation |-> a, value |-> v]
Return(v) == [kind |-> "Return", value |-> v]
If(c, b, o) == [kind |-> "If", test |-> c, body |-> b, orelse |-> o]
While(c, b, o) == [kind |-> "While", test |-> c, body |-> b, orelse |-> o]
Break == [kind |-> "Break"]
Continue == [kind |-> "Continue"]
Pass == [kind |-> "Pass"]
Arg(n, a) == [kind |-> "arg", arg |-> n, annotation |-> a]
FunctionDef(n, as, r, b) ==
    [kind |-> "FunctionDef", name |-> n, args |-> as, returns |-> r, body |-> b]
Module(b) == [kind |-> "Module", body |-> b]

(***************************************************************************)
(* ast.parse: the object graph the translator receives.  The heap is a     *)
(* sequence of node objects, a reference is an index into it (None is 0). *)
(* The shape of the tree depends on the Python version that parses:        *)
(*   "3.7": literals are Str / Num nodes, FunctionDef has no type_comment, *)
(*          a simple subscript index is wrapped in an Index node;          *)
(*   "3.8": literals are Constant nodes, FunctionDef.type_comment exists   *)
(*          (None unless type comments are requested), Index still wraps;  *)
(*   "3.9": as 3.8, and the subscript index is the expression itself.      *)
(* The modelled programs hold str and int literals only.                   *)
(***************************************************************************)
Versions == {"3.7", "3.8", "3.9"}

ListFields(kind) ==
    CASE kind \in {"If", "While"} -> {"body", "orelse"}
      [] kind = "Module" -> {"body"}
      [] kind = "FunctionDef" -> {"args", "body"}
      [] kind = "Call" -> {"args"}
      [] kind = "BoolOp" -> {"values"}
      [] kind = "Compare" -> {"ops", "comparators"}
      [] kind = "Assign" -> {"targets"}
      [] OTHER -> {}

\* The child fields of a node kind, in the order of the class's _fields.
ChildFields(kind) ==
    CASE kind = "Module" -> <<"body">>
      [] kind = "FunctionDef" -> <<"args", "body", "returns">>
      [] kind = "arg" -> <<"annotation">>
      [] kind \in {"If", "While", "IfExp"} -> <<"test", "body", "orelse">>
      [] kind \in {"Expr", "Return", "Index"} -> <<"value">>
      [] kind = "Assign" -> <<"targets", "value">>
      [] kind = "AnnAssign" -> <<"target", "annotation", "value">>
      [] kind = "Name" -> <<"ctx">>
      [] kind = "BinOp" -> <<"left", "op", "right">>
      [] kind = "BoolOp" -> <<"op", "values">>
      [] kind = "UnaryOp" -> <<"op", "operand">>
      [] kind = "Compare" -> <<"left", "ops", "comparators">>
      [] kind = "Call" -> <<"func", "args">>
      [] kind = "Subscript" -> <<"value", "slice">>
      [] kind = "Slice" -> <<"lower", "upper">>
      [] kind = "SetComp" -> <<"elt">>
      [] OTHER -> <<>>

\* The fields of a node kind that hold plain values.
RawFields(kind) ==
    CASE kind = "Name" -> {"kind", "id"}
      [] kind = "Constant" -> {"kind", "value"}
      [] kind = "Str" -> {"kind", "s"}
      [] kind = "Num" -> {"kind", "n"}
      [] kind = "FunctionDef" -> {"kind", "name", "type_comment"}
      [] kind = "arg" -> {"kind", "arg"}
      [] OTHER -> {"kind"}

\* Node kinds that carry lineno / col_offset (statements, expressions, arg).
HasPosition(kind, ver) ==
    /\ kind \notin {"Module", "Index", "Load", "Store",
                    "Add", "Sub", "Mult", "Div", "Mod", "BitOr", "BitXor", "BitAnd",
                    "Pow", "Gt", "GtE", "Lt", "LtE", "Eq", "NotEq", "Is",
                    "Or", "And", "UAdd", "USub", "Not", "Invert"}
    /\ (kind = "Slice" => ver = "3.9")

\* The node as the parser of version ver builds it.
ParsedShape(src, ver) ==
    CASE src.kind = "Constant" /\ ver = "3.7" /\ src.value.t = "str" ->
            [kind |-> "Str", s |-> src.value]
      [] src.kind = "Constant" /\ ver = "3.7" /\ src.value.t = "int" ->
            [kind |-> "Num", n |-> src.value]
      [] src.kind = "Subscript" /\ ver # "3.9" /\ src.slice.kind # "Slice" ->
            [src EXCEPT !.slice = [kind |-> "Index", value |-> src.slice]]
      [] src.kind = "FunctionDef" /\ ver # "3.7" ->
            src @@ [type_comment |-> VNone]
      [] OTHER -> src

\* The children of the parsed node s, field after field.
Children(s) ==
    LET fs == ChildFields(s.kind)
        of(f) == IF f \in ListFields(s.kind) THEN s[f] ELSE <<s[f]>>
    IN  CASE Len(fs) = 0 -> <<>>
          [] Len(fs) = 1 -> of(fs[1])
          [] Len(fs) = 2 -> of(fs[1]) \o of(fs[2])
          [] OTHER -> of(fs[1]) \o of(fs[2]) \o of(fs[3])

\* The position in Children(s) of the first child of the j-th field.
FieldStart(s, j) ==
    LET fs == ChildFields(s.kind)
        n(f) == IF f \in ListFields(s.kind) THEN Len(s[f]) ELSE 1
    IN  CASE j = 1 -> 1
          [] j = 2 -> 1 + n(fs[1])
          [] OTHER -> 1 + n(fs[1]) + n(fs[2])

RECURSIVE Size(_, _), SizeAll(_, _)
\* The number of objects of the subtree src (None takes none).
Size(src, ver) ==
    IF src.kind = "None" THEN 0 ELSE 1 + SizeAll(Children(ParsedShape(src, ver)), ver)
SizeAll(srcs, ver) ==
    IF srcs = <<>> THEN 0 ELSE Size(Head(srcs), ver) + SizeAll(Tail(srcs), ver)

\* Objects are numbered in pre-order: the reference of the k-th child of the
\* node id whose parsed children are cs.
ChildRef(cs, k, id, ver) ==
    IF cs[k].kind = "None" THEN None ELSE id + 1 + SizeAll(SubSeq(cs, 1, k - 1), ver)

\* The object built for the node src, allocated at id.  The else-branch list
\* of an If is an optional list (the translator assigns None to it).
Object(src, id, ver) ==
    LET s == ParsedShape(src, ver)
        cs == Children(s)
        fs == ChildFields(s.kind)
        pos == IF HasPosition(s.kind, ver)
               THEN [lineno |-> id, col_offset |-> 0]
               ELSE [lineno |-> NoAttr, col_offset |-> NoAttr]
        refs(j) == [k \in 1..Len(s[fs[j]]) |-> ChildRef(cs, FieldStart(s, j) + k - 1, id, ver)]
        val(j) == IF fs[j] \notin ListFields(s.kind) THEN ChildRef(cs, FieldStart(s, j), id, ver)
                  ELSE IF s.kind = "If" /\ fs[j] = "orelse"
                  THEN [none |-> FALSE, list |-> refs(j)]
                  ELSE refs(j)
    IN  [f \in DOMAIN s \cap RawFields(s.kind) |-> s[f]] @@ pos
        @@ [f \in {fs[j] : j \in 1..Len(fs)} |->
               val(CHOOSE j \in 1..Len(fs) : fs[j] = f)]

RECURSIVE ObjectAt(_, _, _, _)
\* The object numbered target in the subtree src allocated at id.
ObjectAt(src, id, target, ver) ==
    IF target = id THEN Object(src, id, ver)
    ELSE LET cs == Children(ParsedShape(src, ver))
             k == CHOOSE j \in 1..Len(cs) :
                    /\ cs[j].kind # "None"
                    /\ ChildRef(cs, j, id, ver) <= target
                    /\ target < ChildRef(cs, j, id, ver) + Size(cs[j], ver)
         IN  ObjectAt(cs[k], ChildRef(cs, k, id, ver), target, ver)

\* ast.parse(source_code): the heap of the tree; its root (the Module) is 1.
Parse(src, ver) == [i \in 1..Size(src, ver) |-> ObjectAt(src, 1, i, ver)]

(***************************************************************************)
(* The state: the input, the tree, and the CConverter object.              *)
(***************************************************************************)
VARIABLES
    parsed,            \* ast.parse(source_code) of the program handed to main
    pyver,             \* the Python version that runs the translator
    heap,              \* the syntax tree objects (fields other than custom_ignore)
    ignored,           \* the nodes whose custom_ignore is True
    out,               \* save_to: the pieces written, in order
    level,             \* converter.level
    lineno,            \* converter.lineno
    col_offset,        \* converter.col_offset
    parents,           \* converter.transit_data['parents']
    has_while_orelse,  \* converter.transit_data['has_while_orelse']
    agenda,            \* the control stack: what the active calls still do
    err,               \* the exception that ended the translation, if any
    pc                 \* "init", "run", "done" or "failed"

vars == <<parsed, pyver, heap, ignored, out, level, lineno, col_offset,
          parents, has_while_orelse, agenda, err, pc>>

NoExc == [type |-> "none", msg |-> "", node |-> None]
Exc(type, msg, node) == [type |-> type, msg |-> msg, node |-> node]

\* Items of the control stack.
\* (by: the node whose dispatcher branch issued the write; history only)
WriteI(txt) == [op |-> "write", ident |-> FALSE, txt |-> txt, by |-> None]
WriteIdent(txt) == [op |-> "write", ident |-> TRUE, txt |-> txt, by |-> None]
CWalkI(node, lvl) == [op |-> "cwalk", node |-> node, lvl |-> lvl]
DispatchI(node) == [op |-> "dispatch", node |-> node]
RaiseI(exc) == [op |-> "raise", exc |-> exc]
PopLoopI == [op |-> "hwo_pop"]

RECURSIVE CWalkAll(_, _)
\* for expression in body: self.walk(expression, lvl)
CWalkAll(nodes, lvl) ==
    IF nodes = <<>> THEN <<>>
    ELSE <<CWalkI(Head(nodes), lvl)>> \o CWalkAll(Tail(nodes), lvl)

(***************************************************************************)
(* Operator tables.  Each returns the operator text, "" for an operator    *)
(* tag with no entry (the code raises SourceCodeException there).          *)
(***************************************************************************)
convert_op(kind) ==
    CASE kind = "Add" -> "+" [] kind = "Sub" -> "-" [] kind = "Mult" -> "*"
      [] kind = "Div" -> "/" [] kind = "Mod" -> "%" [] kind = "BitOr" -> "|"
      [] kind = "BitXor" -> "^" [] kind = "BitAnd" -> "&" [] OTHER -> ""

convert_compare_op(kind) ==
    CASE kind = "Gt" -> ">" [] kind = "GtE" -> ">=" [] kind = "Lt" -> "<"
      [] kind = "LtE" -> "<=" [] kind = "Eq" -> "==" [] kind = "NotEq" -> "!="
      [] OTHER -> ""

convert_bool_op(kind) ==
    CASE kind = "Or" -> "||" [] kind = "And" -> "&&" [] OTHER -> ""

convert_unary_op(kind) ==
    CASE kind = "UAdd" -> "+" [] kind = "USub" -> "-" [] kind = "Not" -> "!"
      [] kind = "Invert" -> "~" [] OTHER -> ""

(***************************************************************************)
(* Values as text.                                                         *)
(***************************************************************************)
RECURSIVE JoinLines(_)
\* the str whose lines (split at '\n') are given
JoinLines(lines) ==
    IF lines = <<>> THEN ""
    ELSE IF Len(lines) = 1 THEN lines[1]
    ELSE lines[1] \o "\n" \o JoinLines(Tail(lines))

\* f'{value}'
Format(v) ==
    CASE v.t = "str" -> JoinLines(v.lines)
      [] v.t = "int" -> ToString(v.v)
      [] v.t = "bool" -> IF v.v THEN "True" ELSE "False"
      [] OTHER -> "None"

\* bool(value)
Truthy(v) ==
    CASE v.t = "str" -> v.lines # <<"">>
      [] v.t = "int" -> v.v # 0
      [] v.t = "bool" -> v.v
      [] OTHER -> FALSE

\* '\n' in value, for a str
HasNewline(v) == Len(v.lines) > 1

RECURSIVE DropLeadingEmpty(_), DropTrailingEmpty(_)
DropLeadingEmpty(lines) ==
    IF Len(lines) > 1 /\ Head(lines) = "" THEN DropLeadingEmpty(Tail(lines)) ELSE lines
DropTrailingEmpty(lines) ==
    IF Len(lines) > 1 /\ lines[Len(lines)] = ""
    THEN DropTrailingEmpty(SubSeq(lines, 1, Len(lines) - 1)) ELSE lines

\* comment.strip().split('\n'): the blank lines at both ends are dropped
\* (the lines of the modelled strings carry no other outer white space).
StripSplit(v) == DropTrailingEmpty(DropLeadingEmpty(v.lines))

\* The value of a literal node: node.value (Constant), node.n, node.s.
LiteralValue(n) ==
    CASE n.kind = "Constant" -> n.value
      [] n.kind = "Num" -> n.n
      [] n.kind = "Str" -> n.s
      [] OTHER -> VNone

\* isinstance(node, ast.Str): the class itself, and from 3.8 on a Constant
\* holding a str.
IsStr(n) ==
    \/ n.kind = "Str"
    \/ n.kind = "Constant" /\ n.value.t = "str"

(***************************************************************************)
(* Annotation resolver.                                                    *)
(***************************************************************************)
\* convert_annotation(annotation_node, parent_node): the annotation (none for
\* an absent one), the nodes it marks consumed, and the exception it raises.
convert_annotation(h, a) ==
    IF a = None THEN [none |-> TRUE, text |-> "", ign |-> {}, exc |-> NoExc]
    ELSE CASE h[a].kind = "Name" ->
                [none |-> FALSE, text |-> h[a].id, ign |-> {a}, exc |-> NoExc]
           [] h[a].kind = "Constant" /\ h[a].value.t = "None" ->
                [none |-> TRUE, text |-> "", ign |-> {a},
                 exc |-> Exc("NoneIsNotAllowedException", "None is forbidden", None)]
           [] h[a].kind \in {"Constant", "Num", "Str"} ->
                [none |-> FALSE, text |-> Format(LiteralValue(h[a])), ign |-> {a},
                 exc |-> NoExc]
           [] OTHER ->
                [none |-> TRUE, text |-> "", ign |-> {a},
                 exc |-> Exc("InvalidAnnotationException", "unknown annotation node", a)]

\* f'{annotation}' of an annotation that may be None
AnnText(r) == IF r.none THEN "None" ELSE r.text

(***************************************************************************)
(* Emission routines: the steps a routine performs, as control-stack items.*)
(***************************************************************************)
\* CConverter.process_multiline_comment
process_multiline_comment(comment) ==
    <<WriteI("\n"), WriteIdent("/*\n")>>
    \o [i \in 1..Len(StripSplit(comment)) |-> WriteIdent(StripSplit(comment)[i] \o "\n")]
    \o <<WriteIdent("*/\n")>>

\* CConverter.process_init_variable
process_init_variable(name, value, annotation) ==
    IF ~annotation.none /\ annotation.text = "const"
    THEN <<WriteI("#define "), CWalkI(name, 0)>>
         \o (IF value = None
             THEN <<RaiseI(Exc("NameError", "name 'node' is not defined", None))>>
             ELSE <<WriteI(" "), CWalkI(value, 0), WriteI("\n")>>)
    ELSE <<WriteIdent(AnnText(annotation) \o " "), CWalkI(name, 0)>>
         \o (IF value # None THEN <<WriteI(" = "), CWalkI(value, 0)>> ELSE <<>>)
         \o <<WriteI(";\n")>>

RECURSIVE AssignTargets(_)
AssignTargets(names) ==
    IF names = <<>> THEN <<>>
    ELSE <<CWalkI(Head(names), 0), WriteI(" = ")>> \o AssignTargets(Tail(names))

\* CConverter.process_assign_variable
process_assign_variable(names, value) ==
    <<WriteIdent("")>> \o AssignTargets(names) \o <<CWalkI(value, 0), WriteI(";\n")>>

RECURSIVE JoinArgs(_)
\* ', '.join(f'{annotation_arg} {name_arg}' ...)
JoinArgs(pos_args) ==
    IF pos_args = <<>> THEN ""
    ELSE LET a == Head(pos_args)
             one == a[1] \o " " \o a[2]
         IN  IF Len(pos_args) = 1 THEN one ELSE one \o ", " \o JoinArgs(Tail(pos_args))

\* CConverter.process_def_function; docstring_comment is a value (VNone for None)
process_def_function(name, annotation, pos_args, body, docstring_comment) ==
    (IF Truthy(docstring_comment) THEN process_multiline_comment(docstring_comment)
     ELSE <<>>)
    \o <<WriteIdent((IF annotation.none THEN "void" ELSE annotation.text)
                    \o " " \o name \o "("),
         WriteI(IF pos_args # <<>> THEN JoinArgs(pos_args) ELSE "void"),
         WriteI(") {\n")>>
    \o CWalkAll(body, 1)
    \o <<WriteI("}\n")>>

RECURSIVE CallArgs(_)
CallArgs(pos_args) ==
    IF pos_args = <<>> THEN <<>>
    ELSE <<CWalkI(Head(pos_args), 0)>>
         \o (IF Len(pos_args) > 1 THEN <<WriteI(", ")>> ELSE <<>>)
         \o CallArgs(Tail(pos_args))

\* CConverter.process_call_function
process_call_function(name, pos_args) ==
    <<CWalkI(name, 0), WriteI("(")>> \o CallArgs(pos_args) \o <<WriteI(")")>>

\* CConverter.process_constant
process_constant(value) ==
    CASE value.t = "None" ->
            <<RaiseI(Exc("NoneIsNotAllowedException", "None is forbidden", None))>>
      [] value.t = "str" -> <<WriteI("\"" \o JoinLines(value.lines) \o "\"")>>
      [] value.t = "bool" -> <<WriteI(IF value.v THEN "1" ELSE "0")>>
      [] OTHER -> <<WriteI(ToString(value.v))>>

\* CConverter.write_lbracket / write_rbracket
write_lbracket(is_need_brackets) == IF is_need_brackets THEN <<WriteI("(")>> ELSE <<>>
write_rbracket(is_need_brackets) == IF is_need_brackets THEN <<WriteI(")")>> ELSE <<>>

\* CConverter.process_binary_op
process_binary_op(operand_left, operator, operand_right, is_need_brackets) ==
    write_lbracket(is_need_brackets)
    \o <<CWalkI(operand_left, 0), WriteI(" " \o operator \o " "), CWalkI(operand_right, 0)>>
    \o write_rbracket(is_need_brackets)

\* CConverter.process_unary_op
process_unary_op(operand, operator) == <<WriteI(operator), CWalkI(operand, 0)>>

\* CConverter.process_bool_op
process_bool_op(operand_left, operator, operands_right) ==
    <<CWalkI(operand_left, 0), WriteI(" " \o operator \o " ")>>
    \o CWalkAll(operands_right, 0)

RECURSIVE ComparePairs(_, _)
ComparePairs(operators, operands_right) ==
    IF operators = <<>> \/ operands_right = <<>> THEN <<>>
    ELSE <<WriteI(" " \o Head(operators) \o " "), CWalkI(Head(operands_right), 0)>>
         \o ComparePairs(Tail(operators), Tail(operands_right))

\* CConverter.process_compare
process_compare(operand_left, operators, operands_right) ==
    <<CWalkI(operand_left, 0)>> \o ComparePairs(operators, operands_right)

\* CConverter.process_return
process_return(expression) ==
    <<WriteIdent("return")>>
    \o (IF expression # None THEN <<WriteI(" "), CWalkI(expression, 0)>> ELSE <<>>)
    \o <<WriteI(";\n")>>

\* CConverter.process_expression
process_expression(expression) ==
    <<WriteIdent(""), CWalkI(expression, 0), WriteI(";\n")>>

\* CConverter.process_ifexpr
process_ifexpr(condition, body, orelse, is_need_brackets) ==
    write_lbracket(is_need_brackets)
    \o <<WriteI("("), CWalkI(condition, 0), WriteI(") ? "), CWalkI(body, 0),
         WriteI(" : "), CWalkI(orelse, 0)>>
    \o write_rbracket(is_need_brackets)

\* CConverter.process_subscript
process_subscript(variable, index) ==
    <<CWalkI(variable, 0), WriteI("["), CWalkI(index, 0), WriteI("]")>>

\* CConverter.process_continue
process_continue == <<WriteIdent("continue;\n")>>

\* CConverter.process_break
process_break(flag) ==
    (IF flag THEN <<WriteIdent("success = 0;\n")>> ELSE <<>>)
    \o <<WriteIdent("break;\n")>>

\* CConverter.process_while
process_while(condition, body, orelse) ==
    (IF orelse # <<>> THEN <<WriteIdent("unsigned byte success = 1;\n")>> ELSE <<>>)
    \o <<WriteIdent("while ("), CWalkI(condition, 0), WriteI(") {\n")>>
    \o CWalkAll(body, 1)
    \o <<WriteIdent("}\n\n")>>
    \o (IF orelse # <<>>
        THEN <<WriteIdent("if (success == 1) {\n")>> \o CWalkAll(orelse, 1)
             \o <<WriteIdent("}\n\n")>>
        ELSE <<>>)

RECURSIVE ElseIfs(_)
ElseIfs(ifelses) ==
    IF ifelses = <<>> THEN <<>>
    ELSE <<WriteI(" else if ("), CWalkI(Head(ifelses)[1], 0), WriteI(") {\n")>>
         \o CWalkAll(Head(ifelses)[2], 1) \o <<WriteIdent("}")>>
         \o ElseIfs(Tail(ifelses))

\* CConverter.process_if; ifelses is a list of <<condition, body>>, orelse the
\* optional list of the final else
process_if(condition, body, ifelses, orelse) ==
    <<WriteIdent("if ("), CWalkI(condition, 0), WriteI(") {\n")>>
    \o CWalkAll(body, 1)
    \o <<WriteIdent("}")>>
    \o ElseIfs(ifelses)
    \o (IF ~orelse.none /\ orelse.list # <<>>
        THEN <<WriteI(" else "), WriteI("{\n")>> \o CWalkAll(orelse.list, 1)
             \o <<WriteIdent("}")>>
        ELSE <<>>)
    \o <<WriteI("\n\n")>>

(***************************************************************************)
(* The dispatcher, walk(converter, node).                                  *)
(***************************************************************************)
RecognizedKinds ==
    {"AnnAssign", "Assign", "AugAssign", "FunctionDef", "Call", "Constant", "Num",
     "Str", "Name", "Load", "Store", "Del", "Delete", "BinOp", "BoolOp", "UnaryOp",
     "Return", "NameConstant", "IfExp", "If", "While", "Break", "Continue", "Expr",
     "Pass", "Import", "ImportFrom", "Compare", "Attribute", "Lambda", "Subscript",
     "Module"}

NoneList == [none |-> TRUE, list |-> <<>>]

Top == Head(agenda)
Cur == Top.node

\* parent_node = parents[-1] if parents else None
parent_node == IF parents # <<>> THEN parents[Len(parents)] ELSE None
ParentKind == IF parent_node = None THEN "None" ELSE heap[parent_node].kind

\* converter.lineno / col_offset after lines 408-409
NewLineno == IF heap[Cur].lineno # NoAttr THEN heap[Cur].lineno ELSE lineno
NewColOffset == IF heap[Cur].col_offset # NoAttr THEN heap[Cur].col_offset ELSE col_offset

\* the tree after lines 410-411
Entered == [heap EXCEPT ![Cur].lineno = NewLineno, ![Cur].col_offset = NewColOffset]

\* The dispatcher is about to handle a node of kind k (lines 399-413 passed).
At(k) ==
    /\ pc = "run" /\ agenda # <<>> /\ Top.op = "dispatch"
    /\ Cur # None /\ Cur \notin ignored
    /\ heap[Cur].kind = k

\* What a branch of the dispatcher does before its emission routine runs.
Eff(items) == [items |-> items, heap |-> Entered, ign |-> {}, exc |-> NoExc,
               hwo |-> has_while_orelse]
Fail(exc, ign) == [items |-> <<>>, heap |-> Entered, ign |-> ign, exc |-> exc,
                   hwo |-> has_while_orelse]

\* The item that stands for the end of this dispatcher call (lines 633-634).
WalkExitI == [op |-> "walk_exit", node |-> Cur, entryLevel |-> level,
              entryParents |-> parents]

\* The writes of items, marked as issued on behalf of node n.
Stamp(items, n) ==
    [i \in DOMAIN items |->
        IF items[i].op = "write" THEN [items[i] EXCEPT !.by = n] ELSE items[i]]

\* Lines 402-413, then the branch e, then the routine's steps.
Branch(e) ==
    /\ parents' = Append(parents, Cur)
    /\ lineno' = NewLineno
    /\ col_offset' = NewColOffset
    /\ ignored' = ignored \cup {Cur} \cup e.ign
    /\ heap' = e.heap
    /\ has_while_orelse' = e.hwo
    /\ IF e.exc # NoExc
       THEN agenda' = <<>> /\ err' = e.exc /\ pc' = "failed"
       ELSE /\ agenda' = Stamp(e.items, Cur) \o <<WalkExitI>> \o Tail(agenda)
            /\ UNCHANGED <<err, pc>>
    /\ UNCHANGED <<parsed, pyver, out, level>>

\* main: converter._walk = walk; tree = ast.parse(source_code); walk(converter, tree)
Main ==
    /\ pc = "init"
    /\ heap' = parsed
    /\ agenda' = <<DispatchI(1)>>
    /\ pc' = "run"
    /\ UNCHANGED <<parsed, pyver, ignored, out, level, lineno, col_offset, parents,
                   has_while_orelse, err>>

\* The translation returned to main.
Finish ==
    /\ pc = "run" /\ agenda = <<>>
    /\ pc' = "done"
    /\ UNCHANGED <<parsed, pyver, heap, ignored, out, level, lineno, col_offset,
                   parents, has_while_orelse, agenda, err>>

\* CConverter.write
Write ==
    /\ pc = "run" /\ agenda # <<>> /\ Top.op = "write"
    /\ out' = Append(out, [ind |-> IF Top.ident /\ level > 0 THEN level ELSE 0,
                           txt |-> Top.txt, by |-> Top.by])
    /\ agenda' = Tail(agenda)
    /\ UNCHANGED <<parsed, pyver, heap, ignored, level, lineno, col_offset, parents,
                   has_while_orelse, err, pc>>

\* a raise statement inside an emission routine
Raise ==
    /\ pc = "run" /\ agenda # <<>> /\ Top.op = "raise"
    /\ err' = Top.exc
    /\ agenda' = <<>>
    /\ pc' = "failed"
    /\ UNCHANGED <<parsed, pyver, heap, ignored, out, level, lineno, col_offset,
                   parents, has_while_orelse>>

\* CConverter.walk, entry: self.level += level; self._walk(self, node)
CWalk ==
    /\ pc = "run" /\ agenda # <<>> /\ Top.op = "cwalk"
    /\ level' = level + Top.lvl
    /\ agenda' = <<DispatchI(Top.node),
                   [op |-> "cwalk_exit", lvl |-> Top.lvl, entryLevel |-> level]>>
                 \o Tail(agenda)
    /\ UNCHANGED <<parsed, pyver, heap, ignored, out, lineno, col_offset, parents,
                   has_while_orelse, err, pc>>

\* a walk that forgets to give the indentation back
CWalkDecKept(lvl) == level

\* the decrement of CConverter.walk
CWalkDec(lvl) == level - lvl

\* CConverter.walk, exit: self.level -= level
CWalkExit ==
    /\ pc = "run" /\ agenda # <<>> /\ Top.op = "cwalk_exit"
    /\ level' = CWalkDec(Top.lvl)
    /\ agenda' = Tail(agenda)
    /\ UNCHANGED <<parsed, pyver, heap, ignored, out, lineno, col_offset, parents,
                   has_while_orelse, err, pc>>

\* walk, lines 399-400: node is None or already consumed
WalkSkip ==
    /\ pc = "run" /\ agenda # <<>> /\ Top.op = "dispatch"
    /\ Cur = None \/ Cur \in ignored
    /\ agenda' = Tail(agenda)
    /\ UNCHANGED <<parsed, pyver, heap, ignored, out, level, lineno, col_offset,
                   parents, has_while_orelse, err, pc>>

\* walk, lines 633-634: if parents: parents.pop()
WalkExit ==
    /\ pc = "run" /\ agenda # <<>> /\ Top.op = "walk_exit"
    /\ parents' = IF parents # <<>> THEN SubSeq(parents, 1, Len(parents) - 1) ELSE parents
    /\ agenda' = Tail(agenda)
    /\ UNCHANGED <<parsed, pyver, heap, ignored, out, level, lineno, col_offset,
                   has_while_orelse, err, pc>>

\* walk, line 559: has_while_orelse.pop()
PopLoop ==
    /\ pc = "run" /\ agenda # <<>> /\ Top.op = "hwo_pop"
    /\ has_while_orelse' = SubSeq(has_while_orelse, 1, Len(has_while_orelse) - 1)
    /\ agenda' = Tail(agenda)
    /\ UNCHANGED <<parsed, pyver, heap, ignored, out, level, lineno, col_offset,
                   parents, err, pc>>

\* ast.Module
WalkModule ==
    /\ At("Module")
    /\ Branch(Eff([i \in 1..Len(heap[Cur].body) |-> DispatchI(heap[Cur].body[i])]))

\* ast.AnnAssign
WalkAnnAssign ==
    /\ At("AnnAssign")
    /\ LET n == heap[Cur]
           a == convert_annotation(heap, n.annotation)
       IN  Branch(IF a.exc # NoExc THEN Fail(a.exc, a.ign)
                  ELSE [Eff(process_init_variable(n.target, n.value, a))
                        EXCEPT !.ign = a.ign])

\* ast.Assign
WalkAssign ==
    /\ At("Assign")
    /\ Branch(Eff(process_assign_variable(heap[Cur].targets, heap[Cur].value)))

RECURSIVE ConvertArgs(_, _)
\* lines 440-443: the <<annotation, name>> pairs, the annotation nodes consumed
\* and the first exception of convert_annotation
ConvertArgs(h, args) ==
    IF args = <<>> THEN [pos_args |-> <<>>, ign |-> {}, exc |-> NoExc]
    ELSE LET a == convert_annotation(h, h[Head(args)].annotation)
             rest == ConvertArgs(h, Tail(args))
         IN  IF a.exc # NoExc THEN [pos_args |-> <<>>, ign |-> a.ign, exc |-> a.exc]
             ELSE [pos_args |-> <<<<AnnText(a), h[Head(args)].arg>>>> \o rest.pos_args,
                   ign |-> a.ign \cup rest.ign, exc |-> rest.exc]

\* lines 445-458: the docstring and the nodes consumed for it
Docstring(h, n) ==
    IF "type_comment" \in DOMAIN h[n]
    THEN [comment |-> h[n].type_comment, ign |-> {}]
    ELSE LET first_node == IF h[n].body # <<>> THEN h[n].body[1] ELSE None
         IN  IF first_node # None /\ h[first_node].kind = "Expr"
                /\ h[h[first_node].value].kind \in {"Str", "Constant"}
             THEN [comment |-> LiteralValue(h[h[first_node].value]),
                   ign |-> {first_node, h[first_node].value}]
             ELSE [comment |-> VNone, ign |-> {}]

\* ast.FunctionDef
WalkFunctionDef ==
    /\ At("FunctionDef")
    /\ LET n == heap[Cur]
           as == ConvertArgs(heap, n.args)
           d == Docstring(heap, Cur)
           r == convert_annotation(heap, n.returns)
       IN  Branch(IF as.exc # NoExc THEN Fail(as.exc, as.ign)
                  ELSE IF r.exc # NoExc THEN Fail(r.exc, as.ign \cup d.ign \cup r.ign)
                  ELSE [Eff(process_def_function(n.name, r, as.pos_args, n.body, d.comment))
                        EXCEPT !.ign = as.ign \cup d.ign \cup r.ign])

\* ast.Call
WalkCall ==
    /\ At("Call")
    /\ Branch(Eff(process_call_function(heap[Cur].func, heap[Cur].args)))

\* ast.Constant, ast.Num, ast.Str
WalkConstant ==
    /\ \E k \in {"Constant", "Num", "Str"} : At(k)
    /\ Branch(Eff(process_constant(LiteralValue(heap[Cur]))))

\* ast.Name; CConverter.process_name writes the identifier
WalkName ==
    /\ At("Name")
    /\ Branch([Eff(<<WriteI(heap[Cur].id)>>) EXCEPT !.ign = {heap[Cur].ctx}])

\* a parenthesization rule that forgets the unary parent
BinOpBracketParentsNoUnary == {"BinOp", "BoolOp"}

\* The parent kinds that make a binary operation parenthesized (line 498).
BinOpBracketParents == {"BinOp", "BoolOp", "UnaryOp"}

\* ast.BinOp
WalkBinOp ==
    /\ At("BinOp")
    /\ LET n == heap[Cur]
           is_need_brackets == ParentKind \in BinOpBracketParents
           operator == convert_op(heap[n.op].kind)
       IN  Branch(IF operator = ""
                  THEN Fail(Exc("SourceCodeException", "unknown node operator", n.op),
                            {n.op})
                  ELSE [Eff(process_binary_op(n.left, operator, n.right, is_need_brackets))
                        EXCEPT !.ign = {n.op}])

\* ast.BoolOp
WalkBoolOp ==
    /\ At("BoolOp")
    /\ LET n == heap[Cur]
           operator == convert_bool_op(heap[n.op].kind)
       IN  Branch(IF operator = ""
                  THEN Fail(Exc("SourceCodeException", "unknown node bool operator", n.op),
                            {n.op})
                  ELSE [Eff(process_bool_op(Head(n.values), operator, Tail(n.values)))
                        EXCEPT !.ign = {n.op}])

\* ast.UnaryOp
WalkUnaryOp ==
    /\ At("UnaryOp")
    /\ LET n == heap[Cur]
           operator == convert_unary_op(heap[n.op].kind)
       IN  Branch(IF operator = ""
                  THEN Fail(Exc("SourceCodeException", "unknown node unary operator", n.op),
                            {n.op})
                  ELSE [Eff(process_unary_op(n.operand, operator)) EXCEPT !.ign = {n.op}])

\* ast.Return
WalkReturn ==
    /\ At("Return")
    /\ Branch(Eff(process_return(heap[Cur].value)))

\* ast.IfExp
WalkIfExp ==
    /\ At("IfExp")
    /\ LET n == heap[Cur]
       IN  Branch(Eff(process_ifexpr(n.test, n.body, n.orelse,
                                     ParentKind \in {"Call", "BoolOp"})))

RECURSIVE FlattenElifs(_, _, _, _)
\* Lines 538-543: the loop that collects the elif clauses of the If n.  orelse
\* and ifelses are the locals, h holds node.orelse.  node.orelse[0] is read from
\* the node itself, which the first pass has set to None.
FlattenElifs(h, n, orelse, ifelses) ==
    IF ~(/\ ~orelse.none
         /\ Len(orelse.list) = 1
         /\ h[orelse.list[1]].kind = "If")
    THEN [heap |-> h, ifelses |-> ifelses, orelse |-> orelse, exc |-> NoExc]
    ELSE IF h[n].orelse.none
    THEN [heap |-> h, ifelses |-> ifelses, orelse |-> orelse,
          exc |-> Exc("TypeError", "'NoneType' object is not subscriptable", None)]
    ELSE LET e == h[n].orelse.list[1]
         IN  FlattenElifs([h EXCEPT ![n].orelse = NoneList], n, h[e].orelse,
                          Append(ifelses, <<h[e].test, h[e].body>>))

\* ast.If
WalkIf ==
    /\ At("If")
    /\ LET f == FlattenElifs(Entered, Cur, Entered[Cur].orelse, <<>>)
       IN  Branch(IF f.exc # NoExc THEN [Fail(f.exc, {}) EXCEPT !.heap = f.heap]
                  ELSE [Eff(process_if(heap[Cur].test, heap[Cur].body, f.ifelses, f.orelse))
                        EXCEPT !.heap = f.heap])

\* The flag a while loop pushes for the break statements below it (line 553).
LoopFlag(orelse) == orelse # <<>>

\* ast.While
WalkWhile ==
    /\ At("While")
    /\ LET n == heap[Cur]
       IN  Branch([Eff(process_while(n.test, n.body, n.orelse) \o <<PopLoopI>>)
                   EXCEPT !.hwo = Append(has_while_orelse, LoopFlag(n.orelse))])

\* ast.Break
WalkBreak ==
    /\ At("Break")
    /\ Branch(IF has_while_orelse = <<>>
              THEN Fail(Exc("IndexError", "list index out of range", None), {})
              ELSE Eff(process_break(has_while_orelse[Len(has_while_orelse)])))

\* ast.Continue
WalkContinue ==
    /\ At("Continue")
    /\ Branch(Eff(process_continue))

\* The comment routine the dispatcher calls for a one-line string (line 578).
OneLineComment(comment) ==
    <<RaiseI(Exc("AttributeError",
                 "'CConverter' object has no attribute 'process_one_comment'", None))>>

\* ast.Expr
WalkExpr ==
    /\ At("Expr")
    /\ LET v == heap[heap[Cur].value]
       IN  Branch(IF v.kind \in {"Str", "Constant"} /\ ParentKind = "Module"
                  THEN LET comment == LiteralValue(v)
                       IN  IF comment.t # "str"
                           THEN Fail(Exc("TypeError",
                                         "argument of type is not iterable", None), {})
                           ELSE IF HasNewline(comment)
                           THEN Eff(process_multiline_comment(comment))
                           ELSE Eff(OneLineComment(comment))
                  ELSE Eff(process_expression(heap[Cur].value)))

\* ast.Pass
WalkPass ==
    /\ At("Pass")
    /\ Branch(Eff(<<>>))

RECURSIVE ConvertCompareOps(_, _)
\* [convert_compare_op(op) for op in node.ops]
ConvertCompareOps(h, ops) ==
    IF ops = <<>> THEN [texts |-> <<>>, ign |-> {}, exc |-> NoExc]
    ELSE LET t == convert_compare_op(h[Head(ops)].kind)
             rest == ConvertCompareOps(h, Tail(ops))
         IN  IF t = ""
             THEN [texts |-> <<>>, ign |-> {Head(ops)},
                   exc |-> Exc("SourceCodeException", "unknown node compare operator",
                               Head(ops))]
             ELSE [texts |-> <<t>> \o rest.texts, ign |-> {Head(ops)} \cup rest.ign,
                   exc |-> rest.exc]

\* ast.Compare
WalkCompare ==
    /\ At("Compare")
    /\ LET n == heap[Cur]
           c == ConvertCompareOps(heap, n.ops)
       IN  Branch(IF c.exc # NoExc THEN Fail(c.exc, c.ign)
                  ELSE [Eff(process_compare(n.left, c.texts, n.comparators))
                        EXCEPT !.ign = c.ign])

\* ast.Subscript
WalkSubscript ==
    /\ At("Subscript")
    /\ LET n == heap[Cur]
           isIndex == heap[n.slice].kind = "Index"
       IN  Branch([Eff(process_subscript(n.value,
                                         IF isIndex THEN heap[n.slice].value ELSE None))
                   EXCEPT !.ign = IF isIndex THEN {n.slice} ELSE {}])

\* a dispatcher that passes over a node kind it does not know
WalkUnknownSkipped ==
    /\ pc = "run" /\ agenda # <<>> /\ Top.op = "dispatch"
    /\ Cur # None /\ Cur \notin ignored
    /\ heap[Cur].kind \notin RecognizedKinds
    /\ Branch(Eff(<<>>))

\* else: raise SourceCodeException(f'unknown node: ...', node)
WalkUnknown ==
    /\ pc = "run" /\ agenda # <<>> /\ Top.op = "dispatch"
    /\ Cur # None /\ Cur \notin ignored
    /\ heap[Cur].kind \notin RecognizedKinds
    /\ Branch(Fail(Exc("SourceCodeException", "unknown node", Cur), {}))

(***************************************************************************)
(* The programs explored.                                                  *)
(***************************************************************************)
Atoms == {Name("a"), SetComp(Name("a"))}

RECURSIVE Exprs(_)
\* the expressions nested at most d deep
Exprs(d) ==
    IF d = 0 THEN Atoms
    ELSE LET E == Exprs(d - 1)
         IN  Atoms
             \cup {BinOp(e, "Add", Name("b")) : e \in E}
             \cup {BinOp(Name("b"), "Mult", e) : e \in E}
             \cup {UnaryOp("USub", e) : e \in E}
             \cup {BoolOp("And", <<Name("b"), e>>) : e \in E}
             \cup {Call(Name("f"), <<e>>) : e \in E}
             \cup {Compare(Name("b"), <<"Lt">>, <<e>>) : e \in E}
             \cup {IfExp(Name("b"), e, Name("c")) : e \in E}
             \cup {Subscript(Name("v"), e) : e \in E}

SetX(k) == Assign(<<Name("x")>>, Constant(VInt(k)))

RECURSIVE IfChain(_, _, _)
\* if / elif chain with n guarded branches; branch i assigns i; els is the
\* final else block
IfChain(i, n, els) ==
    If(Name("c"), <<SetX(i)>>, IF i = n THEN els ELSE <<IfChain(i + 1, n, els)>>)

IfChains ==
    {IfChain(1, n, els) : n \in 1..MaxBranches, els \in {<<>>, <<SetX(0)>>}}

RECURSIVE Loops(_, _)
\* while loops nested at most d deep; inLoop: the loop stands in the body of
\* another loop, so a break in its else block exits that loop
Loops(d, inLoop) ==
    IF d = 0 THEN {}
    ELSE {While(Name("c"), b, e) :
            b \in {<<Break>>, <<Continue>>, <<If(Name("c"), <<Break>>, <<>>)>>}
                  \cup {<<l>> : l \in Loops(d - 1, TRUE)}
                  \cup {<<l, Break>> : l \in Loops(d - 1, TRUE)},
            e \in {<<>>, <<Pass>>} \cup (IF inLoop THEN {<<Break>>} ELSE {})}

Docs == {<<"doc">>, <<"a", "b">>, <<"", "a", "">>}

Functions ==
    {FunctionDef("f", <<>>, NoNode, b) :
        b \in {<<Expr(Constant(VStr(d))), Return(Name("a"))>> : d \in Docs}
              \cup {<<Expr(Constant(VStr(d)))>> : d \in Docs}
              \cup {<<Return(NoNode)>>, <<SetX(1), Expr(Constant(VStr(<<"doc">>)))>>,
                    <<Expr(Name("a")), Return(Constant(VInt(1)))>>,
                    <<Return(BinOp(Name("a"), "Sub", Name("b")))>>}}
    \cup {FunctionDef("g", <<Arg("n", Name("int")), Arg("m", NoNode)>>, Name("int"),
                      <<Return(Name("n"))>>),
          FunctionDef("h", <<Arg("n", SetComp(Name("a")))>>, NoNode, <<Pass>>)}

RECURSIVE Nest(_)
\* statements nested at most d blocks deep
Nest(d) ==
    IF d = 0 THEN {SetX(1), Expr(SetComp(Name("a")))}
    ELSE LET N == Nest(d - 1)
         IN  N \cup {If(Name("c"), <<s>>, <<>>) : s \in N}
               \cup {If(Name("c"), <<SetX(2)>>, <<s, SetX(3)>>) : s \in N}
               \cup {While(Name("c"), <<s>>, <<>>) : s \in N}
               \cup {While(Name("c"), <<SetX(2)>>, <<s>>) : s \in N}
               \cup {FunctionDef("g", <<>>, NoNode, <<s>>) : s \in N}

Decls ==
    {AnnAssign(Name("x"), Name(a), v) :
        a \in {"const", "int"}, v \in {NoNode, Constant(VInt(5))}}
    \cup {AnnAssign(Name("x"), SetComp(Name("a")), NoNode),
          AnnAssign(Name("x"), Name("int"), BinOp(Name("a"), "Add", Name("b")))}

Comments == {Expr(Constant(VStr(d))) : d \in Docs}

Statements ==
    {Expr(e) : e \in Exprs(MaxExprDepth)}
    \cup {Assign(<<Name("x"), Name("y")>>, e) : e \in Exprs(1)}
    \cup {Expr(Constant(VInt(1))), Expr(BinOp(Name("a"), "Pow", Name("b"))),
          Expr(Compare(Name("a"), <<"Lt", "Is">>, <<Name("b"), Name("c")>>)),
          Expr(Subscript(Name("v"), Slice(NoNode, NoNode))),
          Expr(Subscript(Name("v"), Slice(Name("a"), NoNode))),
          Assign(<<Name("x")>>, Subscript(Name("v"), Slice(Name("a"), Name("b"))))}
    \cup IfChains \cup Loops(MaxLoopDepth, FALSE) \cup Functions
    \cup Nest(MaxLoopDepth) \cup Decls \cup Comments

Programs ==
    {Module(<<s>>) : s \in Statements}
    \cup {Module(<<s, SetX(7)>>) : s \in Comments \cup Decls \cup {SetX(1)}}
    \cup {Module(<<SetX(7), s>>) :
            s \in Comments \cup {Expr(SetComp(Name("a"))), IfChain(1, MaxBranches, <<>>)}}
    \cup {Module(<<>>)}

(***************************************************************************)
(* The specification.                                                      *)
(***************************************************************************)
\* CConverter.__init__, and the input main is given
Init ==
    /\ pyver \in Versions
    /\ \E source_code \in Programs : parsed = Parse(source_code, pyver)
    /\ heap = <<>>
    /\ ignored = {}
    /\ out = <<>>
    /\ level = 0
    /\ lineno = PyNone
    /\ col_offset = PyNone
    /\ parents = <<>>
    /\ has_while_orelse = <<>>
    /\ agenda = <<>>
    /\ err = NoExc
    /\ pc = "init"

Next ==
    \/ Main \/ Finish \/ Write \/ Raise \/ CWalk \/ CWalkExit
    \/ WalkSkip \/ WalkExit \/ PopLoop
    \/ WalkModule \/ WalkAnnAssign \/ WalkAssign \/ WalkFunctionDef \/ WalkCall
    \/ WalkConstant \/ WalkName \/ WalkBinOp \/ WalkBoolOp \/ WalkUnaryOp
    \/ WalkReturn \/ WalkIfExp \/ WalkIf \/ WalkWhile \/ WalkBreak \/ WalkContinue
    \/ WalkExpr \/ WalkPass \/ WalkCompare \/ WalkSubscript \/ WalkUnknown

Spec == Init /\ [][Next]_vars

(***************************************************************************)
(* Reading the tree and the output.                                        *)
(***************************************************************************)
\* the tree as parsed, before the pass
Tree0 == parsed

Range(f) == {f[i] : i \in DOMAIN f}

\* the nodes a field of node n refers to
FieldRefs(h, n, f) ==
    IF f \in ListFields(h[n].kind)
    THEN IF h[n].kind = "If" /\ f = "orelse" THEN Range(h[n].orelse.list)
         ELSE Range(h[n][f])
    ELSE {h[n][f]} \ {None}

\* the children of node n
Kids(h, n) ==
    UNION {FieldRefs(h, n, ChildFields(h[n].kind)[j]) :
             j \in 1..Len(ChildFields(h[n].kind))}

\* the syntactic parent of node n (None for the root)
ParentOf(h, n) ==
    IF \E p \in DOMAIN h : n \in Kids(h, p)
    THEN CHOOSE p \in DOMAIN h : n \in Kids(h, p)
    ELSE None

RECURSIVE Subtree(_, _)
\* node n and everything below it
Subtree(h, n) == {n} \cup UNION {Subtree(h, k) : k \in Kids(h, n)}

SubtreeOfAll(h, ns) == UNION {Subtree(h, ns[i]) : i \in DOMAIN ns}

\* positions of the pieces written on behalf of node n, in order
PosOf(n) == SelectSeq([i \in 1..Len(out) |-> i], LAMBDA i : out[i].by = n)
\* their texts
TextsOf(n) == [k \in 1..Len(PosOf(n)) |-> out[PosOf(n)[k]].txt]
\* how many of them are txt
Count(n, txt) == Cardinality({i \in 1..Len(out) : out[i].by = n /\ out[i].txt = txt})
\* positions of everything written for the nodes ns
PosOfAll(ns) == {i \in 1..Len(out) : out[i].by \in ns}

\* the node whose handling raised, once the translation has failed
RaisedAt == parents[Len(parents)]

\* the dispatcher has handled node n completely
Finished(n) == n \in ignored /\ n \notin Range(parents) /\ pc # "init"

(***************************************************************************)
(* C1: conditional chains.                                                 *)
(***************************************************************************)
IsElif(h, n) ==
    \E p \in DOMAIN h : h[p].kind = "If" /\ h[p].orelse.list = <<n>>

\* the If nodes that start a chain
ChainHeads(h) == {n \in DOMAIN h : h[n].kind = "If" /\ ~IsElif(h, n)}

HasElif(h, n) ==
    Len(h[n].orelse.list) = 1 /\ h[h[n].orelse.list[1]].kind = "If"

RECURSIVE ChainBlocks(_, _)
\* the statement lists of a chain: the guarded branches in order, then the
\* final else block when there is one
ChainBlocks(h, n) ==
    <<h[n].body>>
    \o (IF HasElif(h, n) THEN ChainBlocks(h, h[n].orelse.list[1])
        ELSE IF h[n].orelse.list # <<>> THEN <<h[n].orelse.list>> ELSE <<>>)

RECURSIVE Guards(_, _)
\* the number of guarded branches of the chain starting at n
Guards(h, n) == 1 + (IF HasElif(h, n) THEN Guards(h, h[n].orelse.list[1]) ELSE 0)

\* the chain starting at n ends in an unconditional else
FinalElse(h, n) == Len(ChainBlocks(h, n)) > Guards(h, n)

\* the k-th opening brace / closing brace written for node n
OpenPos(n, k) ==
    SelectSeq(PosOf(n), LAMBDA i : out[i].txt \in {") {\n", "{\n"})[k]
ClosePos(n, k) ==
    SelectSeq(PosOf(n), LAMBDA i : out[i].txt = "}")[k]

\* C1: for an if/elif/else chain with n >= 1 guarded branches the translation
\* completes, and the text holds exactly one "if (", exactly n-1 " else if (",
\* exactly one unconditional " else " "{" when a final else is present and none
\* otherwise, each branch body lying inside its own pair of braces.
C1_ChainFlattened ==
    LET h == Tree0 IN
    /\ pc = "failed" => h[RaisedAt].kind # "If"
    /\ pc = "done" =>
         \A n \in ChainHeads(h) \cap ignored :
            /\ Count(n, "if (") = 1
            /\ Count(n, " else if (") = Guards(h, n) - 1
            /\ Count(n, " else ") = (IF FinalElse(h, n) THEN 1 ELSE 0)
            /\ Count(n, "}") = Len(ChainBlocks(h, n))
            /\ \A k \in 1..Len(ChainBlocks(h, n)) :
                 \A i \in PosOfAll(SubtreeOfAll(h, ChainBlocks(h, n)[k])) :
                    OpenPos(n, k) < i /\ i < ClosePos(n, k)

(***************************************************************************)
(* C2, C3: loops with a fallback clause.                                   *)
(***************************************************************************)
RECURSIVE ExitedLoop(_, _)
\* the loop a break at (or around) node n exits: the nearest enclosing while
\* whose body, not whose else block, holds n; None when there is none
ExitedLoop(h, n) ==
    LET p == ParentOf(h, n)
    IN  IF p = None \/ h[p].kind = "FunctionDef" THEN None
        ELSE IF h[p].kind = "While" /\ n \in Range(h[p].body) THEN p
        ELSE ExitedLoop(h, p)

HasFallback(h, w) == w # None /\ h[w].orelse # <<>>

\* the piece at position i is a break preceded by its sentinel assignment
SentinelBefore(i) ==
    i > 1 /\ out[i - 1].txt = "success = 0;\n" /\ out[i - 1].by = out[i].by

\* C2: "success = 0;" is emitted before "break;" if and only if the loop that
\* the break exits has a fallback (else) clause, whatever the nesting.
C2_SentinelIffFallback ==
    LET h == Tree0 IN
    \A i \in 1..Len(out) :
        out[i].txt = "break;\n" =>
            (SentinelBefore(i) <=> HasFallback(h, ExitedLoop(h, out[i].by)))

\* the positions of the "break;" pieces of the breaks that exit loop w
BreaksOf(h, w) ==
    {i \in 1..Len(out) :
        /\ out[i].txt = "break;\n"
        /\ ExitedLoop(h, out[i].by) = w}

\* C3: a loop with a fallback clause is emitted as the declaration of the
\* sentinel immediately before "while (", the body in which every break that
\* exits the loop is immediately preceded by "success = 0;", the closing
\* brace, then "if (success == 1) {" around the fallback statements; for a loop
\* without a fallback clause no declaration, no sentinel assignment and no
\* guard is emitted.
C3_LoopFallbackLayout ==
    LET h == Tree0 IN
    \A w \in {n \in DOMAIN h : h[n].kind = "While"} :
        Finished(w) =>
            IF HasFallback(h, w)
            THEN /\ TextsOf(w) = <<"unsigned byte success = 1;\n", "while (", ") {\n",
                                   "}\n\n", "if (success == 1) {\n", "}\n\n">>
                 /\ PosOf(w)[2] = PosOf(w)[1] + 1
                 /\ \A i \in BreaksOf(h, w) :
                      PosOf(w)[3] < i /\ i < PosOf(w)[4] /\ SentinelBefore(i)
                 /\ \A i \in PosOfAll(SubtreeOfAll(h, h[w].orelse)) :
                      PosOf(w)[5] < i /\ i < PosOf(w)[6]
            ELSE /\ TextsOf(w) = <<"while (", ") {\n", "}\n\n">>
                 /\ \A i \in BreaksOf(h, w) : ~SentinelBefore(i)

(***************************************************************************)
(* C4: indentation.                                                        *)
(***************************************************************************)
\* C4: the indentation level at the exit of every routine equals its level at
\* entry (at the return of the dispatcher and of the emission routine it
\* called, and at the return of CConverter.walk once its own increment is
\* taken back), the level is 0 after a complete translation, and it is never
\* negative.
C4_LevelRestored ==
    /\ level >= 0
    /\ pc = "done" => level = 0
    /\ (pc = "run" /\ agenda # <<>> /\ Top.op = "walk_exit") => level = Top.entryLevel
    /\ (pc = "run" /\ agenda # <<>> /\ Top.op = "cwalk_exit") =>
          level - Top.lvl = Top.entryLevel

\* a complete translation that wrote at the deepest nesting explored
C4_Witness ==
    /\ pc = "done" /\ level = 0
    /\ \E i \in 1..Len(out) : out[i].ind >= MaxLoopDepth

(***************************************************************************)
(* C5: unknown node kinds.                                                 *)
(***************************************************************************)
\* the dispatcher is at a node whose kind it does not recognize
AtUnknown ==
    /\ pc = "run" /\ agenda # <<>> /\ Top.op = "dispatch"
    /\ Cur # None /\ Cur \notin ignored
    /\ heap[Cur].kind \notin RecognizedKinds

\* C5: when the dispatcher reaches a node of an unrecognized kind, at any
\* depth, the translation aborts with the unknown-node error carrying that
\* node; nothing is written from then on and the text already written stays.
C5_UnknownNodeAborts ==
    /\ [](pc = "failed" => agenda = <<>>)
    /\ [][/\ AtUnknown =>
               /\ pc' = "failed"
               /\ err' = Exc("SourceCodeException", "unknown node", Cur)
               /\ out' = out
          /\ pc = "failed" => (pc' = "failed" /\ out' = out /\ err' = err)]_vars

\* an unknown node met below the top level, after text was written
C5_Witness ==
    /\ pc = "failed" /\ err.msg = "unknown node"
    /\ parsed[err.node].kind = "SetComp"
    /\ Len(parents) >= 4
    /\ out # <<>>

(***************************************************************************)
(* C6: constants without a value.                                          *)
(***************************************************************************)
\* the annotation of declaration d resolves to the marker const
IsConstDecl(h, d) ==
    /\ h[d].kind = "AnnAssign"
    /\ h[h[d].annotation].kind = "Name"
    /\ h[h[d].annotation].id = "const"

\* C6: a declaration annotated const that has no initializer aborts the
\* translation with the SourceCodeException 'The constant must have a value'
\* reporting the declaration node.
C6_ConstNeedsValue ==
    LET h == Tree0 IN
    \A d \in DOMAIN h :
        (/\ IsConstDecl(h, d) /\ h[d].value = None
         /\ d \in ignored /\ pc \in {"done", "failed"})
        => /\ pc = "failed"
           /\ err = Exc("SourceCodeException", "The constant must have a value!", d)

(***************************************************************************)
(* C7: docstrings.                                                         *)
(***************************************************************************)
\* the first statement of function f is a standalone string literal
HasDocstring(h, f) ==
    /\ h[f].body # <<>>
    /\ h[h[f].body[1]].kind = "Expr"
    /\ IsStr(h[h[h[f].body[1]].value])

\* C7: a function whose first statement is a standalone string literal gets
\* the string as a block comment immediately before its signature and not as
\* a statement of its body; another function gets no comment and its whole
\* body is emitted.
C7_DocstringComment ==
    LET h == Tree0 IN
    \A f \in {n \in DOMAIN h : h[n].kind = "FunctionDef"} :
        (pc = "done" /\ f \in ignored) =>
            LET T == TextsOf(f)
                P == PosOf(f)
            IN  IF HasDocstring(h, f)
                THEN LET doc == h[f].body[1]
                         lines == StripSplit(LiteralValue(h[h[doc].value]))
                         n == Len(lines)
                     IN  /\ Len(T) = n + 7
                         /\ T[1] = "\n" /\ T[2] = "/*\n" /\ T[n + 3] = "*/\n"
                         /\ \A j \in 1..n : T[2 + j] = lines[j] \o "\n"
                         /\ \A j \in 1..(n + 3) : P[j + 1] = P[j] + 1
                         /\ PosOfAll(Subtree(h, doc)) = {}
                ELSE /\ Count(f, "/*\n") = 0
                     /\ \A k \in DOMAIN h[f].body :
                          h[h[f].body[k]].kind # "Pass"
                            => PosOfAll(Subtree(h, h[f].body[k])) # {}

(***************************************************************************)
(* C8: parenthesized binary operations.                                    *)
(***************************************************************************)
\* the syntactic parent of b is a binary, boolean or unary operation
UnderOperator(h, b) ==
    ParentOf(h, b) # None /\ h[ParentOf(h, b)].kind \in {"BinOp", "BoolOp", "UnaryOp"}

\* C8: a binary operation is wrapped in one pair of parentheses if and only if
\* its immediate syntactic parent is a binary, boolean or unary operation; the
\* "(" stands before its left operand and the matching ")" after its right
\* operand.
C8_BinOpBrackets ==
    LET h == Tree0 IN
    \A b \in {n \in DOMAIN h : h[n].kind = "BinOp"} :
        LET T == TextsOf(b)
            P == PosOf(b)
        IN  /\ T # <<>> => (T[1] = "(" <=> UnderOperator(h, b))
            /\ Finished(b) =>
                 /\ Count(b, "(") = (IF UnderOperator(h, b) THEN 1 ELSE 0)
                 /\ Count(b, ")") = Count(b, "(")
                 /\ UnderOperator(h, b) =>
                      /\ T[Len(T)] = ")"
                      /\ \A i \in PosOfAll(Subtree(h, h[b].left) \cup Subtree(h, h[b].right)) :
                           P[1] < i /\ i < P[Len(P)]

\* a finished translation holding a binary operation that stands under a unary
\* operator and was written between one pair of parentheses
C8_Witness ==
    LET h == Tree0 IN
    /\ pc = "done"
    /\ \E b \in DOMAIN h :
         /\ h[b].kind = "BinOp" /\ Finished(b)
         /\ ParentOf(h, b) # None
         /\ h[ParentOf(h, b)].kind = "UnaryOp"
         /\ Count(b, "(") = 1 /\ Count(b, ")") = 1

(***************************************************************************)
(* C9: the input tree.                                                     *)
(***************************************************************************)
\* C9: a translation pass changes nothing in the tree but the consumed flag:
\* kind, child fields (the else-branch list of a conditional included) and
\* values of every node stay as parsed.
C9_TreeUnchanged ==
    pc # "init" =>
        \A n \in DOMAIN Tree0 :
            \A f \in DOMAIN Tree0[n] \ {"lineno", "col_offset"} :
                heap[n][f] = Tree0[n][f]

(***************************************************************************)
(* C10: comments at module top level.                                      *)
(***************************************************************************)
\* the pieces of a comment, without the blank line that may lead it
CommentPieces(T) == IF T # <<>> /\ T[1] = "\n" THEN Tail(T) ELSE T

\* C10: a standalone string literal statement at module top level is emitted
\* as a comment and the translation goes on: "// text" on one line for a
\* string without a newline, a block comment with one line per line of the
\* string, each at the current indentation, for a string with a newline.
C10_TopLevelComment ==
    LET h == Tree0 IN
    \A s \in Range(h[1].body) :
        (h[s].kind = "Expr" /\ IsStr(h[h[s].value]) /\ s \in ignored) =>
            LET v == LiteralValue(h[h[s].value])
                T == CommentPieces(TextsOf(s))
            IN  /\ ~(pc = "failed" /\ RaisedAt = s)
                /\ Finished(s) =>
                     /\ \A i \in Range(PosOf(s)) : out[i].ind = 0
                     /\ IF ~HasNewline(v)
                        THEN T = <<"// " \o JoinLines(v.lines) \o "\n">>
                        ELSE T = <<"/*\n">>
                                 \o [j \in 1..Len(StripSplit(v)) |-> StripSplit(v)[j] \o "\n"]
                                 \o <<"*/\n">>

(***************************************************************************)
(* C11: subscripts indexed by a slice.                                     *)
(***************************************************************************)
\* the index of subscript s is a slice expression
IsSliced(h, s) ==
    /\ h[s].kind = "Subscript"
    /\ h[s].slice # None
    /\ h[h[s].slice].kind = "Slice"

\* C11: a subscript whose index is a slice expression makes the dispatcher
\* fail with a translation error (a SourceCodeException): the dispatcher call
\* on it never returns, a translation that reached it does not complete, and
\* no closing "]" of an empty or partial index is ever written for it.
C11_SliceSubscriptFails ==
    LET h == Tree0 IN
    \A s \in {n \in DOMAIN h : IsSliced(h, n)} :
        /\ Count(s, "]") = 0
        /\ ~Finished(s)
        /\ (s \in ignored /\ pc = "failed") => err.type = "SourceCodeException"

(***************************************************************************)
(* C12: the ancestor stack.                                                *)
(***************************************************************************)
\* the dispatcher calls that are active below the top of the control stack,
\* innermost first
ActiveCalls == SelectSeq(agenda, LAMBDA it : it.op = "walk_exit")

\* the node whose emission routine issued the dispatcher call on top
Emitting == IF ActiveCalls = <<>> THEN None ELSE ActiveCalls[1].node

\* node n is handled by the routine of an ancestor and never dispatched: the
\* wrapper of a simple index, or the conditional that stands for an elif
IsFolded(h, n) ==
    \/ h[n].kind = "Index"
    \/ h[n].kind = "If" /\ IsElif(h, n)

RECURSIVE EmittedParent(_, _)
\* the syntactic parent of node n among the nodes that are dispatched
EmittedParent(h, n) ==
    LET p == ParentOf(h, n)
    IN  IF p = None THEN None
        ELSE IF IsFolded(h, p) THEN EmittedParent(h, p)
        ELSE p

\* a dispatcher call is about to start on a node it will handle
AtLiveDispatch ==
    /\ pc = "run" /\ agenda # <<>> /\ Top.op = "dispatch"
    /\ Cur # None /\ Cur \notin ignored

\* C12: every exit from a dispatcher call leaves the ancestor stack as it was
\* at entry: the early exit for an absent or consumed node, the normal exit,
\* and the exit by an error, which unwinds every active call down to the first
\* one, entered with an empty stack; and while the children of a node are
\* emitted the top of the stack is that node, which is the child's syntactic
\* parent.
C12_AncestorStackRestored ==
    /\ [](pc \in {"done", "failed"} => parents = <<>>)
    /\ [](AtLiveDispatch =>
            /\ parent_node = Emitting
            /\ parent_node = EmittedParent(Tree0, Cur))
    /\ [][/\ (pc = "run" /\ agenda # <<>> /\ Top.op = "walk_exit")
               => parents' = Top.entryParents
          /\ (pc = "run" /\ agenda # <<>> /\ Top.op = "dispatch"
               /\ (Cur = None \/ Cur \in ignored))
               => parents' = parents]_vars

====
